---- MODULE Spec2Model ----
(***************************************************************************)
(* Model of the gixl terminal log viewer (src/src/tui.rs): the App cursor  *)
(* operations, the frame loop run_app, the key dispatch handle_events, the *)
(* frame function ui, and the terminal set-up / tear-down of run.          *)
(***************************************************************************)
EXTENDS Integers, Naturals, Sequences, FiniteSets, TLC

\* ------------------------------------------------------------------ bounds
\* Longest entry list handed to tui::run.
MaxLen == 5
\* Tallest list area (chunks[0].height) a frame is drawn with.
MaxChunkHeight == 6
\* Most inspect actions (Enter) of one session.
MaxInspects == 2

\* ------------------------------------------------------- machine integers
\* Width of usize in the model. The targets have 64 bits; 16 keep the numbers
\* small and are more than any index or height here needs, so that a value
\* wraps only where the code's own arithmetic leaves the range. usize
\* arithmetic wraps modulo 2^UsizeBits in builds without overflow checks.
UsizeBits == 16
UsizeModulus == 2 ^ UsizeBits

\* a - b on usize, as computed when overflow checks are off.
WrappingSub(a, b) == (a - b) % UsizeModulus
\* a + b on usize, as computed when overflow checks are off.
WrappingAdd(a, b) == (a + b) % UsizeModulus
\* usize::saturating_sub / u16::saturating_sub.
SaturatingSub(a, b) == IF a >= b THEN a - b ELSE 0
\* Ord::max.
Max(a, b) == IF a >= b THEN a ELSE b

\* ------------------------------------------------------------- Option<T>
None == << >>
Some(i) == << i >>
IsSome(o) == o # None
\* Option::unwrap_or.
UnwrapOr(o, d) == IF IsSome(o) THEN o[1] ELSE d

\* --------------------------------------------------------------- entries
\* Item = (LogEntryInfo, Option<&Submodule>): the commit id and the origin.
Origins == {None, Some("sub")}
\* App.git_dir, the directory of the top-level repository.
TopGitDir == "top"
\* Submodule::git_dir().
SubmoduleGitDir(name) == "gitdir:" \o name
\* The entry lists tui::run can be called with: any length from 0 to MaxLen.
ItemLists ==
    UNION { { [i \in 1..n |-> [commit_id |-> i, submodule |-> f[i]]] :
              f \in [1..n -> Origins] } : n \in 0..MaxLen }

\* v[i] of a Vec, whose indices start at 0.
At(v, i) == v[i + 1]

\* ---------------------------------------------------------------- events
KeyCodes == {"q", "Enter", "j", "Down", "k", "Up", "PageDown", "PageUp",
             "Home", "End", "x"}
KeyKinds == {"Press", "Release", "Repeat"}
\* What event::read() can return: key events of any kind, and other events.
Events == [type : {"Key"}, code : KeyCodes, kind : KeyKinds]
          \cup {[type |-> "Resize", code |-> "x", kind |-> "Press"]}
Press(code) == [type |-> "Key", code |-> code, kind |-> "Press"]

\* Result<(), Report> values.
Ok == "Ok"
Err(what) == "Err:" \o what

VARIABLES
    items,           \* App.items
    selected,        \* App.state.selected(): Option<usize>
    list_height,     \* App.list_height: u16
    status,          \* the status line drawn by ui: <<rank, total>>, or << >>
    pc,              \* position of the single thread of control
    alt,             \* the terminal is on the alternate screen
    raw,             \* the terminal is in raw mode
    enters,          \* EnterAlternateScreen commands executed
    leaves,          \* LeaveAlternateScreen commands executed
    inspects,        \* Action::Select handled so far
    sel_arg,         \* the usize carried by Action::Select, None outside inspect
    child,           \* the running external process <<cwd, commit_id>>, or << >>
    res,             \* what run_app returned to run ("" while it runs)
    ret,             \* what run returned ("" while it runs)
    panic,           \* the panic that aborted the thread, or "none"
    last_key,        \* history: the key code pressed in this iteration of the
                     \* loop, "none" once the next frame is drawn
    handoff,         \* history: the steps of the current (or last) inspect
                     \* that have completed, in the order they completed
    reverse,         \* main.rs: args.reverse
    exit_code        \* main.rs: the exit code of the process, -1 while it runs

vars == << items, selected, list_height, status, pc, alt, raw, enters, leaves,
           inspects, sel_arg, child, res, ret, panic, last_key, handoff,
           reverse, exit_code >>

appVars == << items, selected, list_height, status >>
termVars == << alt, raw, enters, leaves >>
procVars == << inspects, sel_arg, child, handoff >>
mainVars == << reverse, exit_code >>

\* ------------------------------------------------------------------- Init
\* The state at the call of tui::run: nothing entered, App not yet built.
Init ==
    /\ items \in ItemLists
    /\ selected = None
    /\ list_height = 0
    /\ status = << >>
    /\ pc = "enter_alt"
    /\ alt = FALSE
    /\ raw = FALSE
    /\ enters = 0
    /\ leaves = 0
    /\ inspects = 0
    /\ sel_arg = None
    /\ child = << >>
    /\ res = ""
    /\ ret = ""
    /\ panic = "none"
    /\ last_key = "none"
    /\ handoff = << >>
    /\ reverse = FALSE
    /\ exit_code = -1

\* ------------------------------------------------------- terminal commands
\* stdout().execute(EnterAlternateScreen) succeeding.
EnterAlternateScreen == alt' = TRUE /\ enters' = enters + 1
\* stdout().execute(LeaveAlternateScreen) succeeding.
LeaveAlternateScreen == alt' = FALSE /\ leaves' = leaves + 1
\* enable_raw_mode() succeeding.
enable_raw_mode == raw' = TRUE
\* disable_raw_mode() succeeding.
disable_raw_mode == raw' = FALSE

\* A panic unwinds the thread: nothing of run or run_app executes after it.
Panics(msg) ==
    /\ panic' = msg
    /\ pc' = "panicked"

\* The `?` of run_app: the error is handed to run, which goes on at line 163.
RunAppReturns(r) ==
    /\ res' = r
    /\ pc' = "t_leave_alt"

\* A return of run: the process leaves the session with this result.
RunReturns(r) ==
    /\ ret' = r
    /\ pc' = "exited"

\* ------------------------------------------------------- App (lines 33-105)
\* App::new followed by app.state.select(Some(0)) (run, lines 158-159).
AppNew ==
    /\ pc = "app_new"
    /\ selected' = Some(0)
    /\ list_height' = 0
    /\ pc' = "draw"
    /\ UNCHANGED << items, status, termVars, procVars, res, ret, panic,
                    last_key, mainVars >>

\* page_size of page_down and page_up: (self.list_height / 2).max(1) as usize.
page_size(h) == Max(h \div 2, 1)

\* `self.items.len() - 1` underflows (next, line 48).
next_overflows(sel, len) == IsSome(sel) /\ len = 0
\* next wrapping around to the first entry after the last one.
next_i_wrap_around(sel, len) ==
    IF IsSome(sel)
    THEN IF sel[1] < WrappingSub(len, 1) THEN sel[1] + 1 ELSE 0
    ELSE 0
\* The index App::next selects.
next_i(sel, len) ==
    IF IsSome(sel)
    THEN IF sel[1] < WrappingSub(len, 1) THEN sel[1] + 1 ELSE sel[1]
    ELSE 0

\* The index App::previous selects; it has no arithmetic that can overflow.
previous_i(sel, len) ==
    IF IsSome(sel)
    THEN IF sel[1] > 0 THEN sel[1] - 1 ELSE sel[1]
    ELSE 0

\* page_down without the clamp of lines 78-79.
page_down_i_unclamped(sel, len, h) ==
    IF IsSome(sel) THEN WrappingAdd(sel[1], page_size(h)) ELSE 0
\* page_down with the step fixed at one row instead of half the viewport.
page_down_i_step_one(sel, len, h) ==
    IF IsSome(sel)
    THEN IF sel[1] + 1 >= len THEN WrappingSub(len, 1) ELSE sel[1] + 1
    ELSE 0
\* `i + page_size` overflows, or `self.items.len() - 1` underflows (page_down).
page_down_overflows(sel, len, h) ==
    /\ IsSome(sel)
    /\ \/ sel[1] + page_size(h) >= UsizeModulus
       \/ WrappingAdd(sel[1], page_size(h)) >= len /\ len = 0
\* The index App::page_down selects.
page_down_i(sel, len, h) ==
    IF IsSome(sel)
    THEN LET nxt == WrappingAdd(sel[1], page_size(h))
         IN  IF nxt >= len THEN WrappingSub(len, 1) ELSE nxt
    ELSE 0

\* page_up with a plain `i - page_size`, which wraps below zero.
page_up_i_wrapping(sel, len, h) ==
    IF IsSome(sel) THEN WrappingSub(sel[1], page_size(h)) ELSE 0
\* The index App::page_up selects (saturating, so it cannot overflow).
page_up_i(sel, len, h) ==
    IF IsSome(sel) THEN SaturatingSub(sel[1], page_size(h)) ELSE 0

\* The index App::go_to_start selects.
go_to_start_i(sel, len) == 0

\* go_to_end selecting the length instead of the last index.
go_to_end_i_past_end(sel, len) == len
\* `self.items.len() - 1` underflows (go_to_end, line 103).
go_to_end_overflows(sel, len) == len = 0
\* The index App::go_to_end selects.
go_to_end_i(sel, len) == WrappingSub(len, 1)

\* A call of an App method from handle_events. The method selects i and
\* handle_events returns Action::Continue, which starts the next iteration.
\* Where its arithmetic overflows, a build with overflow checks (the debug
\* profile) panics instead, and a build without them goes on with the wrapped
\* value: either outcome is possible.
AppCall(overflows, i) ==
    \/ /\ overflows
       /\ Panics("arithmetic overflow")
       /\ UNCHANGED selected
    \/ /\ selected' = Some(i)
       /\ pc' = "draw"
       /\ UNCHANGED panic

next == AppCall(next_overflows(selected, Len(items)),
                next_i(selected, Len(items)))
previous == AppCall(FALSE, previous_i(selected, Len(items)))
page_down == AppCall(page_down_overflows(selected, Len(items), list_height),
                     page_down_i(selected, Len(items), list_height))
page_up == AppCall(FALSE, page_up_i(selected, Len(items), list_height))
go_to_start == AppCall(FALSE, go_to_start_i(selected, Len(items)))
go_to_end == AppCall(go_to_end_overflows(selected, Len(items)),
                     go_to_end_i(selected, Len(items)))

\* ---------------------------------------------------- run (lines 153-167)
\* Line 154: stdout().execute(EnterAlternateScreen)?
RunEnterAltOk ==
    /\ pc = "enter_alt"
    /\ EnterAlternateScreen
    /\ pc' = "enable_raw"
    /\ UNCHANGED << appVars, raw, leaves, procVars, res, ret, panic,
                    last_key, mainVars >>
RunEnterAltErr ==
    /\ pc = "enter_alt"
    /\ RunReturns(Err("enter_alt"))
    /\ UNCHANGED << appVars, termVars, procVars, res, panic, last_key,
                    mainVars >>

\* Line 155: enable_raw_mode()?
RunEnableRawOk ==
    /\ pc = "enable_raw"
    /\ enable_raw_mode
    /\ pc' = "new_terminal"
    /\ UNCHANGED << appVars, alt, enters, leaves, procVars, res, ret, panic,
                    last_key, mainVars >>
RunEnableRawErr ==
    /\ pc = "enable_raw"
    /\ RunReturns(Err("enable_raw"))
    /\ UNCHANGED << appVars, termVars, procVars, res, panic, last_key,
                    mainVars >>

\* Line 156: Terminal::new(CrosstermBackend::new(stdout()))?
RunNewTerminalOk ==
    /\ pc = "new_terminal"
    /\ pc' = "app_new"
    /\ UNCHANGED << appVars, termVars, procVars, res, ret, panic, last_key,
                    mainVars >>
RunNewTerminalErr ==
    /\ pc = "new_terminal"
    /\ RunReturns(Err("new_terminal"))
    /\ UNCHANGED << appVars, termVars, procVars, res, panic, last_key,
                    mainVars >>

\* Line 163: stdout().execute(LeaveAlternateScreen)?, reached with whatever
\* run_app returned.
RunLeaveAltOk ==
    /\ pc = "t_leave_alt"
    /\ LeaveAlternateScreen
    /\ pc' = "t_disable_raw"
    /\ UNCHANGED << appVars, raw, enters, procVars, res, ret, panic,
                    last_key, mainVars >>
RunLeaveAltErr ==
    /\ pc = "t_leave_alt"
    /\ RunReturns(Err("leave_alt"))
    /\ UNCHANGED << appVars, termVars, procVars, res, panic, last_key,
                    mainVars >>

\* Lines 164-166: disable_raw_mode()?; res
RunDisableRawOk ==
    /\ pc = "t_disable_raw"
    /\ disable_raw_mode
    /\ RunReturns(res)
    /\ UNCHANGED << appVars, alt, enters, leaves, procVars, res, panic,
                    last_key, mainVars >>
RunDisableRawErr ==
    /\ pc = "t_disable_raw"
    /\ RunReturns(Err("disable_raw"))
    /\ UNCHANGED << appVars, termVars, procVars, res, panic, last_key,
                    mainVars >>

\* ------------------------------------------------------ ui (lines 232-263)
\* The index ui reads the status line's entry at: selected().unwrap_or(0).
ui_selected(sel) == UnwrapOr(sel, 0)
\* `&app.items[selected]` of line 248 is out of bounds.
ui_index_out_of_bounds(sel, len) == ui_selected(sel) >= len
\* The status line "<id> - commit {selected + 1} of {len}".
ui_status(sel, len) == << ui_selected(sel) + 1, len >>

\* The rows of the list that a list area of height h shows: the List is built
\* without a Block (lines 144-150) and rendered into all of chunks[0] (line
\* 239), and every ListItem is one Line.
list_visible_rows(h) == h

\* Line 177, terminal.draw(|f| ui(f, &mut app))?, succeeding on a terminal
\* whose list area is h rows high (borders included).
Draw(h) ==
    /\ pc = "draw"
    /\ list_height' = SaturatingSub(h, 2)
    /\ IF ui_index_out_of_bounds(selected, Len(items))
       THEN /\ Panics("index out of bounds")
            /\ UNCHANGED status
       ELSE /\ status' = ui_status(selected, Len(items))
            /\ pc' = "read"
            /\ UNCHANGED panic
    /\ last_key' = "none"
    /\ UNCHANGED << items, selected, termVars, procVars, res, ret, mainVars >>
\* terminal.draw failing with an I/O error.
DrawErr ==
    /\ pc = "draw"
    /\ RunAppReturns(Err("draw"))
    /\ last_key' = "none"
    /\ UNCHANGED << appVars, termVars, procVars, ret, panic, mainVars >>

\* ------------------------------------------- handle_events (lines 208-230)
\* Action::Quit: run_app breaks out of the loop and returns Ok(()).
ActionQuit ==
    /\ RunAppReturns(Ok)
    /\ UNCHANGED << selected, panic, inspects, sel_arg, handoff >>

\* Action::Continue: the match arm is empty, the loop starts over.
ActionContinue ==
    /\ pc' = "draw"
    /\ UNCHANGED << selected, panic, res, inspects, sel_arg, handoff >>

\* Action::Select(s), lines 181-187: `&app.items[s]` is bounds-checked, then
\* the hand-off to the external process begins.
ActionSelect(s) ==
    /\ inspects' = inspects + 1
    /\ handoff' = << >>
    /\ IF s >= Len(items)
       THEN /\ Panics("index out of bounds")
            /\ UNCHANGED sel_arg
       ELSE /\ sel_arg' = Some(s)
            /\ pc' = "i_leave_alt"
            /\ UNCHANGED panic
    /\ UNCHANGED << selected, res >>

\* The match on key.code of a key event of kind Press (lines 212-226).
KeyPressed(code) ==
    CASE code = "q" -> ActionQuit
      [] code = "Enter" ->
            IF IsSome(selected) THEN ActionSelect(selected[1])
                                ELSE ActionContinue
      [] code \in {"j", "Down"} -> next /\ UNCHANGED << res, inspects, sel_arg, handoff >>
      [] code \in {"k", "Up"} -> previous /\ UNCHANGED << res, inspects, sel_arg, handoff >>
      [] code = "PageDown" -> page_down /\ UNCHANGED << res, inspects, sel_arg, handoff >>
      [] code = "PageUp" -> page_up /\ UNCHANGED << res, inspects, sel_arg, handoff >>
      [] code = "Home" -> go_to_start /\ UNCHANGED << res, inspects, sel_arg, handoff >>
      [] code = "End" -> go_to_end /\ UNCHANGED << res, inspects, sel_arg, handoff >>
      [] OTHER -> ActionContinue

\* handle_events without the test of key.kind (line 210): releases and repeats
\* of a key act like its press.
HandleEventsAnyKind(ev) ==
    /\ pc = "read"
    /\ ev.code = "Enter" => inspects < MaxInspects
    /\ IF ev.type = "Key"
       THEN KeyPressed(ev.code) /\ last_key' = ev.code
       ELSE ActionContinue /\ last_key' = "none"
    /\ UNCHANGED << items, list_height, status, termVars, child, ret,
                    mainVars >>
\* Line 179, handle_events(&mut app)?, with event::read() returning ev, and
\* the match of run_app on the Action it returns.
HandleEvents(ev) ==
    /\ pc = "read"
    /\ ev = Press("Enter") => inspects < MaxInspects
    /\ IF ev.type = "Key" /\ ev.kind = "Press"
       THEN KeyPressed(ev.code) /\ last_key' = ev.code
       ELSE ActionContinue /\ last_key' = "none"
    /\ UNCHANGED << items, list_height, status, termVars, child, ret,
                    mainVars >>
\* event::read() failing with an I/O error.
HandleEventsErr ==
    /\ pc = "read"
    /\ RunAppReturns(Err("read"))
    /\ UNCHANGED << appVars, termVars, procVars, ret, panic, last_key,
                    mainVars >>

\* ------------------------------------- run_app, inspect (lines 181-200)
\* The directory chosen without looking at the entry's origin.
current_dir_top_level(item) == TopGitDir
\* Lines 183-187: the directory the external process runs in.
current_dir(item) ==
    IF IsSome(item.submodule) THEN SubmoduleGitDir(item.submodule[1])
                              ELSE TopGitDir

\* Line 188: terminal.backend_mut().execute(LeaveAlternateScreen)?
InspectLeaveAltOk ==
    /\ pc = "i_leave_alt"
    /\ LeaveAlternateScreen
    /\ pc' = "i_disable_raw"
    /\ handoff' = Append(handoff, "leave_alt")
    /\ UNCHANGED << appVars, raw, enters, inspects, sel_arg, child, res, ret,
                    panic, last_key, mainVars >>
InspectLeaveAltErr ==
    /\ pc = "i_leave_alt"
    /\ RunAppReturns(Err("leave_alt"))
    /\ UNCHANGED << appVars, termVars, procVars, ret, panic, last_key,
                    mainVars >>

\* The hand-off with line 189 left out: raw mode stays on for the process.
InspectDisableRawSkipped ==
    /\ pc = "i_disable_raw"
    /\ pc' = "i_spawn"
    /\ UNCHANGED << appVars, termVars, procVars, res, ret, panic, last_key,
                    mainVars >>
\* Line 189: disable_raw_mode()?
InspectDisableRawOk ==
    /\ pc = "i_disable_raw"
    /\ disable_raw_mode
    /\ pc' = "i_spawn"
    /\ handoff' = Append(handoff, "disable_raw")
    /\ UNCHANGED << appVars, alt, enters, leaves, inspects, sel_arg, child,
                    res, ret, panic, last_key, mainVars >>
InspectDisableRawErr ==
    /\ pc = "i_disable_raw"
    /\ RunAppReturns(Err("disable_raw"))
    /\ UNCHANGED << appVars, termVars, procVars, ret, panic, last_key,
                    mainVars >>

\* Lines 190-196: Command::new("git") ... .status() starts `git show` and
\* blocks until it exits.
InspectSpawnOk ==
    /\ pc = "i_spawn"
    /\ child' = << current_dir(At(items, sel_arg[1])),
                   At(items, sel_arg[1]).commit_id >>
    /\ pc' = "external"
    /\ handoff' = Append(handoff, "spawn")
    /\ UNCHANGED << appVars, termVars, inspects, sel_arg, res, ret, panic,
                    last_key, mainVars >>
\* .status() returning Err: the process could not be started.
InspectSpawnErr ==
    /\ pc = "i_spawn"
    /\ RunAppReturns(Err("spawn"))
    /\ UNCHANGED << appVars, termVars, inspects, sel_arg, child, ret, panic,
                    last_key, mainVars, handoff >>
\* The external process exits; .status() returns Ok(ExitStatus), which the
\* statement discards whatever the exit code.
ChildExits(code) ==
    /\ pc = "external"
    /\ child' = << >>
    /\ pc' = "i_enable_raw"
    /\ handoff' = Append(handoff, "exit")
    /\ UNCHANGED << appVars, termVars, inspects, sel_arg, res, ret, panic,
                    last_key, mainVars >>

\* Line 197: enable_raw_mode()?
InspectEnableRawOk ==
    /\ pc = "i_enable_raw"
    /\ enable_raw_mode
    /\ pc' = "i_enter_alt"
    /\ handoff' = Append(handoff, "enable_raw")
    /\ UNCHANGED << appVars, alt, enters, leaves, inspects, sel_arg, child,
                    res, ret, panic, last_key, mainVars >>
InspectEnableRawErr ==
    /\ pc = "i_enable_raw"
    /\ RunAppReturns(Err("enable_raw"))
    /\ UNCHANGED << appVars, termVars, procVars, ret, panic, last_key,
                    mainVars >>

\* The hand-off without line 199: the loop goes on without terminal.clear().
InspectEnterAltNoClear ==
    /\ pc = "i_enter_alt"
    /\ EnterAlternateScreen
    /\ pc' = "draw"
    /\ sel_arg' = None
    /\ handoff' = Append(handoff, "enter_alt")
    /\ UNCHANGED << appVars, raw, leaves, inspects, child, res, ret, panic,
                    last_key, mainVars >>
\* Line 198: terminal.backend_mut().execute(EnterAlternateScreen)?
InspectEnterAltOk ==
    /\ pc = "i_enter_alt"
    /\ EnterAlternateScreen
    /\ pc' = "i_clear"
    /\ handoff' = Append(handoff, "enter_alt")
    /\ UNCHANGED << appVars, raw, leaves, inspects, sel_arg, child, res, ret,
                    panic, last_key, mainVars >>
InspectEnterAltErr ==
    /\ pc = "i_enter_alt"
    /\ RunAppReturns(Err("enter_alt"))
    /\ UNCHANGED << appVars, termVars, procVars, ret, panic, last_key,
                    mainVars >>

\* The return from inspect with the selection reset to the first entry.
InspectClearResetsSelection ==
    /\ pc = "i_clear"
    /\ sel_arg' = None
    /\ selected' = Some(0)
    /\ pc' = "draw"
    /\ handoff' = Append(handoff, "clear")
    /\ UNCHANGED << items, list_height, status, termVars, inspects, child,
                    res, ret, panic, last_key, mainVars >>
\* Line 199: terminal.clear()?; the arm ends and the loop starts over.
InspectClearOk ==
    /\ pc = "i_clear"
    /\ sel_arg' = None
    /\ pc' = "draw"
    /\ handoff' = Append(handoff, "clear")
    /\ UNCHANGED << appVars, termVars, inspects, child, res, ret, panic,
                    last_key, mainVars >>
InspectClearErr ==
    /\ pc = "i_clear"
    /\ RunAppReturns(Err("clear"))
    /\ UNCHANGED << appVars, termVars, procVars, ret, panic, last_key,
                    mainVars >>

\* -------------------------------------------------------- specification
Next ==
    \/ RunEnterAltOk \/ RunEnterAltErr
    \/ RunEnableRawOk \/ RunEnableRawErr
    \/ RunNewTerminalOk \/ RunNewTerminalErr
    \/ AppNew
    \/ \E h \in 0..MaxChunkHeight : Draw(h)
    \/ DrawErr
    \/ \E ev \in Events : HandleEvents(ev)
    \/ HandleEventsErr
    \/ InspectLeaveAltOk \/ InspectLeaveAltErr
    \/ InspectDisableRawOk \/ InspectDisableRawErr
    \/ InspectSpawnOk \/ InspectSpawnErr
    \/ \E code \in {"zero", "nonzero"} : ChildExits(code)
    \/ InspectEnableRawOk \/ InspectEnableRawErr
    \/ InspectEnterAltOk \/ InspectEnterAltErr
    \/ InspectClearOk \/ InspectClearErr
    \/ RunLeaveAltOk \/ RunLeaveAltErr
    \/ RunDisableRawOk \/ RunDisableRawErr

Spec == Init /\ [][Next]_vars

\* ================================================================ main.rs
\* The bounds of the collection: entries pushed, and distinct author times.
MaxEntries == 3
MaxTime == 2

\* std::cmp::Reverse on an author time: the order of the keys is reversed.
Reverse(t) == 0 - t
\* The key closures of the two sort_by_key calls (lines 59 and 61).
sort_key(rev, entry) ==
    IF rev THEN entry.author_time ELSE Reverse(entry.author_time)

\* A stable sort puts an element behind the elements before it whose key is
\* equal: the place of key k among the already sorted keys.
insertion_point_before_equal(keys, k) ==
    Cardinality({ i \in 1..Len(keys) : keys[i] < k })
insertion_point(keys, k) ==
    Cardinality({ i \in 1..Len(keys) : keys[i] <= k })

\* Vec::sort_by_key (stable), computed by insertion from the left.
RECURSIVE sort_by_key(_, _)
sort_by_key(v, rev) ==
    IF v = << >> THEN << >>
    ELSE LET sorted == sort_by_key(SubSeq(v, 1, Len(v) - 1), rev)
             x == v[Len(v)]
             keys == [i \in 1..Len(sorted) |-> sort_key(rev, sorted[i])]
             p == insertion_point(keys, sort_key(rev, x))
         IN  SubSeq(sorted, 1, p) \o << x >>
                 \o SubSeq(sorted, p + 1, Len(sorted))

\* The LogEntryInfo of the next commit of a walk with its origin: commit_id
\* stands for the commit, numbered in the order of the pushes.
LogEntry(v, origin, t) ==
    [commit_id |-> Len(v) + 1, submodule |-> origin, author_time |-> t]

\* The state at the call run(args) (line 31): the flags are parsed, entries
\* is empty.
InitMain ==
    /\ items = << >>
    /\ selected = None
    /\ list_height = 0
    /\ status = << >>
    /\ pc = "m_discover"
    /\ alt = FALSE
    /\ raw = FALSE
    /\ enters = 0
    /\ leaves = 0
    /\ inspects = 0
    /\ sel_arg = None
    /\ child = << >>
    /\ res = ""
    /\ ret = ""
    /\ panic = "none"
    /\ last_key = "none"
    /\ handoff = << >>
    /\ reverse \in BOOLEAN
    /\ exit_code = -1

\* A `?` of main's run: run returns the error to main.
MainRunReturns(r) ==
    /\ ret' = r
    /\ pc' = "m_return"

\* gix::discover(git_dir)? (line 37).
MainDiscoverOk ==
    /\ pc = "m_discover"
    /\ pc' = "m_submodules"
    /\ UNCHANGED << appVars, termVars, procVars, res, ret, panic, last_key,
                    mainVars >>
MainDiscoverErr ==
    /\ pc = "m_discover"
    /\ MainRunReturns(Err("discover"))
    /\ UNCHANGED << appVars, termVars, procVars, res, panic, last_key,
                    mainVars >>

\* entries.push((entry?, Some(submodule))) (line 48): one more commit of a
\* submodule's walk, with author time t.
MainPushSubmoduleEntry(t) ==
    /\ pc = "m_submodules"
    /\ Len(items) < MaxEntries - 1
    /\ items' = Append(items, LogEntry(items, Some("sub"), t))
    /\ UNCHANGED << selected, list_height, status, pc, termVars, procVars,
                    res, ret, panic, last_key, mainVars >>
\* repo.submodules()?, submodule.open()?, get_log_iter(..)? or entry? failing
\* (lines 41-48).
MainSubmodulesErr ==
    /\ pc = "m_submodules"
    /\ MainRunReturns(Err("submodules"))
    /\ UNCHANGED << appVars, termVars, procVars, res, panic, last_key,
                    mainVars >>
\* The end of the submodule block (line 52): no submodules wanted, none
\* there, or all of them walked.
MainSubmodulesDone ==
    /\ pc = "m_submodules"
    /\ pc' = "m_log"
    /\ UNCHANGED << appVars, termVars, procVars, res, ret, panic, last_key,
                    mainVars >>

\* entries.push((entry?, None)) (line 56): one more commit of the top-level
\* walk.
MainPushEntry(t) ==
    /\ pc = "m_log"
    /\ Len(items) < MaxEntries
    /\ items' = Append(items, LogEntry(items, None, t))
    /\ UNCHANGED << selected, list_height, status, pc, termVars, procVars,
                    res, ret, panic, last_key, mainVars >>
\* get_log_iter(&repo, "HEAD")? or entry? failing (lines 54-56).
MainLogErr ==
    /\ pc = "m_log"
    /\ MainRunReturns(Err("log"))
    /\ UNCHANGED << appVars, termVars, procVars, res, panic, last_key,
                    mainVars >>
\* The end of the top-level walk, which holds at least the commit of HEAD,
\* and the sort of lines 58-62.
MainSort ==
    /\ pc = "m_log"
    /\ Len(items) > 0
    /\ items[Len(items)].submodule = None
    /\ items' = sort_by_key(items, reverse)
    /\ pc' = "m_tui"
    /\ UNCHANGED << selected, list_height, status, termVars, procVars, res,
                    ret, panic, last_key, mainVars >>

\* tui::run(git_dir.to_path_buf(), entries) (line 64): the call.
MainCallsTuiRun ==
    /\ pc = "m_tui"
    /\ pc' = "enter_alt"
    /\ UNCHANGED << appVars, termVars, procVars, res, ret, panic, last_key,
                    mainVars >>

\* run's result is main's result (lines 31 and 64): the process exits with
\* 0 for Ok(()) and with 1 for Err.
MainReturnsAlwaysSuccess ==
    /\ pc \in {"m_return", "exited"}
    /\ exit_code' = 0
    /\ pc' = "process_exit"
    /\ UNCHANGED << appVars, termVars, procVars, res, ret, panic, last_key,
                    reverse >>
MainReturns ==
    /\ pc \in {"m_return", "exited"}
    /\ exit_code' = IF ret = Ok THEN 0 ELSE 1
    /\ pc' = "process_exit"
    /\ UNCHANGED << appVars, termVars, procVars, res, ret, panic, last_key,
                    reverse >>

NextMain ==
    \/ MainDiscoverOk \/ MainDiscoverErr
    \/ \E t \in 1..MaxTime : MainPushSubmoduleEntry(t)
    \/ MainSubmodulesErr
    \/ MainSubmodulesDone
    \/ \E t \in 1..MaxTime : MainPushEntry(t)
    \/ MainLogErr
    \/ MainSort
    \/ MainCallsTuiRun
    \/ Next
    \/ MainReturns

SpecMain == InitMain /\ [][NextMain]_vars

\* ================================================================ claims
Min(a, b) == IF a <= b THEN a ELSE b

\* The positions inside the frame loop of run_app, inspect included.
LoopPcs == {"draw", "read", "i_leave_alt", "i_disable_raw", "i_spawn",
            "external", "i_enable_raw", "i_enter_alt", "i_clear"}

\* C1: on a non-empty entry list, whatever keys were pressed and whatever
\* the viewport height of each frame, the cursor exists while the frame loop
\* runs and always satisfies 0 <= cursor < length.
C1_CursorInRange ==
    Len(items) > 0 =>
        /\ pc \in LoopPcs => IsSome(selected)
        /\ IsSome(selected) => 0 <= selected[1] /\ selected[1] < Len(items)
\* The cursor of a single-entry list after a page_down with a viewport of 0.
C1_Witness ==
    /\ Len(items) = 1
    /\ last_key = "PageDown"
    /\ list_height = 0
    /\ selected = Some(0)
    /\ pc = "draw"

C4_ProcessOutcomeNeverEndsSession == res # Err("spawn")

\* C5: the hand-off is symmetric: when the session ends without any terminal
\* command having failed, the alternate screen was not left more often than
\* it was entered.
C5_HandoffSymmetric ==
    (pc = "exited" /\ ret \in {Ok, Err("spawn")}) => leaves <= enters

\* C6: whenever run has returned, by the quit key or by any error path, the
\* alternate screen has been left and raw mode disabled, each entering
\* released exactly once.
C6_ReleasedExactlyOnceAtExit ==
    pc = "exited" => ~alt /\ ~raw /\ leaves = enters

\* C7: the terminal has one owner at a time: the external process runs only
\* with the alternate screen left and raw mode off, and the UI draws or reads
\* an event only with both on and no external process running.
C7_OneOwner ==
    /\ child # << >> => ~alt /\ ~raw
    /\ pc \in {"draw", "read"} => alt /\ raw /\ child = << >>
\* The external process of a second inspect, running after a resumed UI.
C7_Witness ==
    /\ pc = "external"
    /\ child # << >>
    /\ inspects > 1

\* A step of the frame loop that handles a press of one of the keys in codes
\* on a non-empty list.
KeyStep(codes) == pc = "read" /\ Len(items) > 0 /\ last_key' \in codes

\* C8: on a non-empty list page_down moves the cursor to
\* min(cursor + max(viewport_rows / 2, 1), length - 1), with integer division;
\* so a viewport of 0 rows pages like one of 1 row, and on 5 entries with 4
\* rows two page_downs from 0 give 2 and then 4.
C8_PageDown ==
    /\ [][KeyStep({"PageDown"}) =>
            /\ pc' = "draw"
            /\ selected' = Some(Min(selected[1] + Max(list_height \div 2, 1),
                                    Len(items) - 1))]_vars
    /\ \A n \in 1..MaxLen : \A c \in 0..(n - 1) :
            page_down_i(Some(c), n, 0) = page_down_i(Some(c), n, 1)
    /\ page_down_i(Some(0), 5, 4) = 2
    /\ page_down_i(Some(2), 5, 4) = 4
\* The end of a 5-entry list reached by page_down with a viewport of 4 rows.
C8_Witness ==
    /\ Len(items) = 5
    /\ last_key = "PageDown"
    /\ list_height = 4
    /\ selected = Some(4)
    /\ pc = "draw"

\* C9: on a non-empty list page_up moves the cursor to
\* max(cursor - max(viewport_rows / 2, 1), 0): it floors at 0 and never lands
\* behind where it started.
C9_PageUp ==
    [][KeyStep({"PageUp"}) =>
          /\ pc' = "draw"
          /\ selected' = Some(Max(selected[1] - Max(list_height \div 2, 1), 0))
          /\ selected'[1] <= selected[1]]_vars
\* The start of the list reached by page_up with a step of 2 rows.
C9_Witness ==
    /\ Len(items) > 1
    /\ last_key = "PageUp"
    /\ list_height = 4
    /\ selected = Some(0)
    /\ pc = "draw"

\* C10: on a non-empty list select_next (j, Down) moves the cursor to
\* min(cursor + 1, length - 1) and select_previous (k, Up) to
\* max(cursor - 1, 0): one entry or none, never around the end.
C10_NextPrevious ==
    /\ [][KeyStep({"j", "Down"}) =>
            /\ pc' = "draw"
            /\ selected' = Some(Min(selected[1] + 1, Len(items) - 1))]_vars
    /\ [][KeyStep({"k", "Up"}) =>
            /\ pc' = "draw"
            /\ selected' = Some(Max(selected[1] - 1, 0))]_vars
\* select_next pressed with the cursor on the last of several entries.
C10_Witness ==
    /\ Len(items) > 1
    /\ last_key \in {"j", "Down"}
    /\ selected = Some(Len(items) - 1)
    /\ pc = "draw"


\* C11: on a non-empty list go_to_end (End) sets the cursor to length - 1,
\* where select_next leaves it unchanged, and go_to_start (Home) sets it to
\* 0, where select_previous leaves it unchanged.
C11_EndsAreFixedPoints ==
    /\ [][KeyStep({"End"}) =>
            /\ pc' = "draw"
            /\ selected' = Some(Len(items) - 1)
            /\ next_i(selected', Len(items)) = selected'[1]]_vars
    /\ [][KeyStep({"Home"}) =>
            /\ pc' = "draw"
            /\ selected' = Some(0)
            /\ previous_i(selected', Len(items)) = selected'[1]]_vars
    /\ [][(KeyStep({"j", "Down"}) /\ selected = Some(Len(items) - 1))
            => selected' = selected]_vars
    /\ [][(KeyStep({"k", "Up"}) /\ selected = Some(0))
            => selected' = selected]_vars
\* go_to_end on a single-entry list.
C11_Witness ==
    /\ Len(items) = 1
    /\ last_key = "End"
    /\ selected = Some(0)
    /\ pc = "draw"

\* The effect the key table gives to event ev on a non-empty list.
C12_Expected(ev) ==
    /\ items' = items
    /\ IF ev.type = "Key" /\ ev.kind = "Press" /\ ev.code # "x"
       THEN CASE ev.code = "q" ->
                    pc' = "t_leave_alt" /\ res' = Ok /\ selected' = selected
              [] ev.code = "Enter" ->
                    /\ pc' = "i_leave_alt"
                    /\ sel_arg' = selected
                    /\ selected' = selected
              [] ev.code \in {"j", "Down"} ->
                    /\ pc' = "draw"
                    /\ selected' = Some(Min(selected[1] + 1, Len(items) - 1))
              [] ev.code \in {"k", "Up"} ->
                    /\ pc' = "draw"
                    /\ selected' = Some(Max(selected[1] - 1, 0))
              [] ev.code = "PageDown" ->
                    /\ pc' = "draw"
                    /\ selected' =
                         Some(Min(selected[1] + Max(list_height \div 2, 1),
                                  Len(items) - 1))
              [] ev.code = "PageUp" ->
                    /\ pc' = "draw"
                    /\ selected' =
                         Some(Max(selected[1] - Max(list_height \div 2, 1), 0))
              [] ev.code = "Home" -> pc' = "draw" /\ selected' = Some(0)
              [] ev.code = "End" ->
                    pc' = "draw" /\ selected' = Some(Len(items) - 1)
       ELSE /\ pc' = "draw"
            /\ selected' = selected
            /\ UNCHANGED << res, ret, panic, inspects, sel_arg, child >>

\* C12: every event is mapped to exactly one action: a press of q quits,
\* j/Down, k/Up, PageDown, PageUp, Home, End move, Enter inspects; any other
\* key and any event that is not a key press changes nothing and raises no
\* error.
C12_KeyTable ==
    [][\A ev \in Events : HandleEvents(ev) => C12_Expected(ev)]_vars
\* A frame loop that went on after an event that was no key press, with the
\* cursor where it was.
C12_Witness ==
    /\ pc = "draw"
    /\ last_key = "none"
    /\ status # << >>
    /\ selected = Some(1)

\* C13: the external process gets the commit id of the entry under the
\* cursor at the moment Enter was pressed and runs in the submodule's git
\* directory when that entry has an origin, in the top-level directory when
\* it has none.
C13_InspectTarget ==
    child # << >> =>
        /\ sel_arg = selected
        /\ LET e == At(items, selected[1])
           IN  /\ child[2] = e.commit_id
               /\ e.submodule = Some("sub") => child[1] = "gitdir:sub"
               /\ e.submodule = None => child[1] = "top"
\* The process for the second entry, which belongs to the submodule.
C13_Witness ==
    /\ pc = "external"
    /\ selected = Some(1)
    /\ child = << "gitdir:sub", 2 >>


\* The results that a failing terminal I/O call produces: the mode
\* transitions, and creating the terminal, drawing, reading and clearing.
ModeTransitionErrs == {Err("enter_alt"), Err("enable_raw"), Err("leave_alt"),
                       Err("disable_raw")}
TerminalIoErrs == ModeTransitionErrs \cup {Err("new_terminal"), Err("draw"),
                                           Err("read"), Err("clear")}

\* C16: the frame loop leaves Running only when the quit key is pressed,
\* apart from a failure of the terminal (a mode transition, or the I/O of
\* drawing, reading or clearing): it stays in Running after every move,
\* no-op and inspect.
C16_LeavesRunningOnlyOnQuit ==
    res # "" => \/ res = Ok /\ last_key = "q"
                \/ res \in TerminalIoErrs

\* The steps of one inspect, in the order of lines 188-199.
HandoffOrder == << "leave_alt", "disable_raw", "spawn", "exit",
                   "enable_raw", "enter_alt", "clear" >>

\* C17: the steps of an inspect complete in the order leave alternate
\* screen, disable raw mode, run the process to its exit, enable raw mode,
\* enter alternate screen, clear; the process runs after exactly the first
\* two, and a frame is drawn or an event read after an inspect only when all
\* have completed.
C17_HandoffOrder ==
    /\ Len(handoff) <= Len(HandoffOrder)
    /\ handoff = SubSeq(HandoffOrder, 1, Len(handoff))
    /\ child # << >> => handoff = << "leave_alt", "disable_raw", "spawn" >>
    /\ (pc \in {"draw", "read"} /\ inspects > 0) => handoff = HandoffOrder
\* An event about to be read after a completed inspect.
C17_Witness ==
    /\ pc = "read"
    /\ inspects > 0
    /\ handoff = HandoffOrder

\* C18: what run returns is Ok or the error of a failing terminal I/O call:
\* no navigation operation, key dispatch or external-process invocation
\* makes the session fail.
C18_OnlyTerminalFailuresPropagate ==
    pc = "exited" => ret \in {Ok} \cup TerminalIoErrs

\* C19: every frame sets the viewport geometry to the number of rows the
\* list area shows on the terminal it is drawn on.
C19_ViewportIsVisibleRows ==
    [][\A h \in 0..MaxChunkHeight :
          (Draw(h) /\ pc' = "read") => list_height' = list_visible_rows(h)]_vars

\* The positions of an inspect, from Action::Select to terminal.clear().
InspectPcs == {"i_leave_alt", "i_disable_raw", "i_spawn", "external",
               "i_enable_raw", "i_enter_alt", "i_clear"}

\* C20: no step of the session changes the entry list, and an inspect
\* changes no cursor: from Enter to the return to the frame loop the entry
\* selected is the one Enter was pressed on.
C20_InspectKeepsCursorAndList ==
    /\ [][items' = items]_vars
    /\ [](IsSome(sel_arg) => selected = sel_arg)
    /\ [][(pc \in InspectPcs) => selected' = selected]_vars
\* The frame loop back after an inspect of the third entry.
C20_Witness ==
    /\ pc = "draw"
    /\ last_key = "Enter"
    /\ handoff = HandoffOrder
    /\ selected = Some(2)

\* The positions of main's run before the sort.
CollectPcs == {"m_discover", "m_submodules", "m_log"}
\* after holds the elements of before, each once (commit_id tells them apart).
IsPermutation(before, after) ==
    /\ Len(after) = Len(before)
    /\ \A i \in 1..Len(before) : \E j \in 1..Len(after) : after[j] = before[i]
\* v is ordered by author time, ascending with the flag and descending without.
IsOrdered(v, rev) ==
    \A i, j \in 1..Len(v) :
        i < j => IF rev THEN v[i].author_time <= v[j].author_time
                        ELSE v[i].author_time >= v[j].author_time
\* Entries of equal author time stand in the order of their pushes.
TiesKeepWalkOrder(v) ==
    \A i, j \in 1..Len(v) :
        (i < j /\ v[i].author_time = v[j].author_time)
            => v[i].commit_id < v[j].commit_id

\* C14: the entry list handed to the navigation state machine is a
\* permutation of the collected entries, ordered by author timestamp
\* (ascending in ascending mode, descending in descending mode), and entries
\* with equal timestamps keep their relative walk order.
C14_SortedStablePermutation ==
    /\ [][MainSort => IsPermutation(items, items')]_vars
    /\ [](pc \notin CollectPcs /\ ret \notin {Err("discover"), Err("submodules"), Err("log")}
            => /\ Len(items) > 0
               /\ IsOrdered(items, reverse)
               /\ TiesKeepWalkOrder(items))
\* Descending mode: the newest commit was pushed last and comes first, the
\* submodule's commit and a top-level commit of the same time keep their order.
C14_Witness ==
    /\ pc = "app_new"
    /\ ~reverse
    /\ Len(items) = 3
    /\ [i \in 1..3 |-> items[i].commit_id] = << 3, 1, 2 >>
    /\ items[2].author_time = items[3].author_time
    /\ items[2].submodule = Some("sub")
    /\ items[3].submodule = None

\* The errors main's run returns before the viewer starts.
StartupErrs == {Err("discover"), Err("submodules"), Err("log")}

\* C15 as stated: the exit code is 0 on a clean quit and on any unrecoverable
\* startup error, and non-zero only if terminal-mode restoration fails.
C15_ExitCodes ==
    pc = "process_exit" =>
        /\ (ret = Ok /\ last_key = "q") => exit_code = 0
        /\ ret \in StartupErrs => exit_code = 0
        /\ exit_code # 0 => ret \in ModeTransitionErrs
\* C15 amended: the exit code is 0 exactly on a clean quit (the quit key,
\* then a successful restoration of the terminal), and non-zero on any
\* unrecoverable startup error and on any failure the viewer propagates.
C15_ExitCodeIsZeroOnlyOnCleanQuit ==
    pc = "process_exit" =>
        /\ exit_code = 0 <=> (ret = Ok /\ last_key = "q" /\ ~alt /\ ~raw)
        /\ ret # Ok => exit_code = 1
        /\ ret \in StartupErrs => enters = 0
\* The repository is not found: the process ends with 1, the viewer has not
\* started.
C15_Witness ==
    /\ pc = "process_exit"
    /\ ret = Err("discover")
    /\ exit_code = 1
    /\ items = << >>

====
